---- MODULE Spec2Model ----
(***************************************************************************)
(* Model of total-wireless-app2.py: a Streamlit point-of-sale shell over   *)
(* two JSON documents, sales_records.json (a list of sale records) and     *)
(* inventory.json (store -> product -> quantity).                          *)
(*                                                                         *)
(* Text is a sequence of characters, so that str.strip() is computed.      *)
(* Prices are binary floating point numbers: an amount is an integer count *)
(* of the smallest quantum, and every arithmetic result is rounded to      *)
(* MantBits significant bits, ties to even (IEEE-754 keeps 53).            *)
(***************************************************************************)
EXTENDS Integers, Sequences, FiniteSets, TLC

(* ------------------------------ bounds -------------------------------- *)
\* button presses (Save Sale, Update Inventory, a report) of the shell instance
MaxOps == 2
\* "Quantity to Add" is 1..500 in the form; the model offers 1..MaxAdd
MaxAdd == 2
\* "Quantity" is 1..100 in the form; the model offers 1..MaxQty
MaxQty == 2
\* significant bits of a floating point amount
MantBits == 3
\* length of the record lists handed to calculate_totals on its own
MaxRecs == 3
\* largest stored quantity of the documents handed to reduce_inventory on its own
MaxStock == 2

(* --------------------------- program constants ------------------------ *)
SALES_FILE == "sales_records.json"
INVENTORY_FILE == "inventory.json"
STORE_LOCATIONS == {"1 E Penn Sq", "5600 Germantion Ave", "2644 Germantion Ave"}
PaymentMethods == {"Cash", "Card"}
BillPaymentName == <<"B", "i", "l", "l", " ", "P", "a", "y", "m", "e", "n", "t">>

(* ------------------------------- inputs ------------------------------- *)
\* what can be typed into a "Product Name" box
ProductInputs == {<<>>, <<" ">>, <<"a">>, <<" ", "a">>, <<"b", " ">>}
\* what can be typed into the "Employee Name" box
EmployeeInputs == {<<>>, <<" ">>, <<"e", " ">>}
\* what datetime.now() can read, in minutes (the wall clock is not monotonic)
Minutes == {0, 1}
\* the <<cost, sold>> pairs offered to the sale form (units of the quantum)
PriceInputs == {<<0, 1>>, <<1, 0>>}

(* -------------------------------- text -------------------------------- *)
IsSpace(c) == c = " "

RECURSIVE lstrip(_)
lstrip(s) == IF s # <<>> /\ IsSpace(Head(s)) THEN lstrip(Tail(s)) ELSE s

RECURSIVE rstrip(_)
rstrip(s) ==
  IF s # <<>> /\ IsSpace(s[Len(s)]) THEN rstrip(SubSeq(s, 1, Len(s) - 1)) ELSE s

strip(s) == rstrip(lstrip(s))

Products == {strip(p) : p \in ProductInputs} \ {<<>>}
Employees == {strip(e) : e \in EmployeeInputs} \ {<<>>}

(* ------------------------- floating point ----------------------------- *)
Abs(x) == IF x < 0 THEN -x ELSE x

\* the spacing of representable numbers around magnitude m
RECURSIVE Quantum(_)
Quantum(m) == IF m < 2 ^ MantBits THEN 1 ELSE 2 * Quantum(m \div 2)

\* round to nearest representable, ties to even mantissa
Round(x) ==
  LET m == Abs(x)
      q == Quantum(m)
      lo == (m \div q) * q
      hi == lo + q
      r == IF m - lo < hi - m THEN lo
           ELSE IF m - lo > hi - m THEN hi
           ELSE IF (lo \div q) % 2 = 0 THEN lo ELSE hi
  IN IF x < 0 THEN -r ELSE r

FAdd(a, b) == Round(a + b)
FSub(a, b) == Round(a - b)

(* ----------------------------- JSON store ----------------------------- *)
\* A file is <<>> when it does not exist and <<document>> when it does.
\* json.dump followed by json.load gives back an equal document for the
\* documents of this program (string keys, integers, floats, lists).
EmptyMap == [x \in {} |-> 0]

load_json(F, filename, default) ==
  IF Len(F[filename]) = 0 THEN default ELSE F[filename][1]

save_json(F, filename, data) == [F EXCEPT ![filename] = <<data>>]

load_sales(F) == load_json(F, SALES_FILE, <<>>)

save_sales(F, sales) == save_json(F, SALES_FILE, sales)

DefaultInventory == [store \in STORE_LOCATIONS |-> EmptyMap]

load_inventory(F) == load_json(F, INVENTORY_FILE, DefaultInventory)

save_inventory(F, inventory) == save_json(F, INVENTORY_FILE, inventory)

\* the stored quantity of (store, product), -1 when there is no such entry
Stored(inv, store, product) ==
  IF store \in DOMAIN inv /\ product \in DOMAIN inv[store]
  THEN inv[store][product] ELSE -1

(* --------------------------- reduce_inventory ------------------------- *)
\* line 41
ReduceNotFound(inventory, store, product) ==
  store \notin DOMAIN inventory \/ product \notin DOMAIN inventory[store]

\* line 44
ReduceShortAllowsZero(inventory, store, product, qty) ==
  inventory[store][product] < qty - 1

ReduceShort(inventory, store, product, qty) ==
  inventory[store][product] < qty

\* line 47
ReduceDocOne(inventory, store, product, qty) ==
  [inventory EXCEPT ![store][product] = @ - 1]

ReduceDocAll(inventory, store, product, qty) ==
  [inventory EXCEPT ![store] = [p \in DOMAIN inventory[store] |-> inventory[store][p] - qty]]

ReduceDoc(inventory, store, product, qty) ==
  [inventory EXCEPT ![store][product] = @ - qty]

\* the error reduce_inventory shows, "ok" when it returns True
ReduceResult(inventory, store, product, qty) ==
  IF ReduceNotFound(inventory, store, product) THEN "not_found"
  ELSE IF ReduceShort(inventory, store, product, qty) THEN "insufficient"
  ELSE "ok"

\* the files after reduce_inventory(store, product, qty)
reduce_inventory(F, store, product, qty) ==
  LET inventory == load_inventory(F)
  IN IF ReduceResult(inventory, store, product, qty) = "ok"
     THEN save_inventory(F, ReduceDoc(inventory, store, product, qty))
     ELSE F

(* ------------------------- Update Inventory --------------------------- *)
\* lines 142-145 with the product name already stripped
UpsertDocOverwrite(inventory, store, product, qty_add) ==
  LET inv1 == IF store \notin DOMAIN inventory
              THEN (store :> EmptyMap) @@ inventory ELSE inventory
  IN [inv1 EXCEPT ![store] = (product :> qty_add) @@ inv1[store]]

UpsertDoc(inventory, store, product, qty_add) ==
  LET current_qty == IF store \in DOMAIN inventory /\ product \in DOMAIN inventory[store]
                     THEN inventory[store][product] ELSE 0
      inv1 == IF store \notin DOMAIN inventory
              THEN (store :> EmptyMap) @@ inventory ELSE inventory
  IN [inv1 EXCEPT ![store] = (product :> current_qty + qty_add) @@ inv1[store]]

(* ---------------------------- calculate_totals ------------------------ *)
\* Python's sum(): start at 0 and add the items from left to right
RECURSIVE sum_from(_, _)
sum_from(acc, xs) == IF xs = <<>> THEN acc ELSE sum_from(FAdd(acc, Head(xs)), Tail(xs))

sum(xs) == sum_from(0, xs)

IsCash(s) == s.payment_method = "Cash"
IsCard(s) == s.payment_method = "Card"

Field(sales, f) == [i \in 1..Len(sales) |-> sales[i][f]]

calculate_totals_cash_all(sales) ==
  [cost |-> sum(Field(sales, "cost")),
   sold |-> sum(Field(sales, "sold")),
   acc |-> sum(Field(sales, "acc")),
   cash |-> sum(Field(sales, "sold")),
   card |-> sum(Field(SelectSeq(sales, IsCard), "sold"))]

calculate_totals(sales) ==
  [cost |-> sum(Field(sales, "cost")),
   sold |-> sum(Field(sales, "sold")),
   acc |-> sum(Field(sales, "acc")),
   cash |-> sum(Field(SelectSeq(sales, IsCash), "sold")),
   card |-> sum(Field(SelectSeq(sales, IsCard), "sold"))]

(* ------------------------------- state -------------------------------- *)
VARIABLES
  files,     \* file name -> <<>> (no such file) or <<document>>
  employee,  \* the stripped "Employee Name" of the session, <<>> when not logged in
  pc,        \* "idle", or "append": Save Sale is between line 104 and line 106
  pending,   \* the form of the Save Sale run in progress
  msg,       \* what the last handler run reported
  shown,     \* what the last Reports run displayed
  ops,       \* button presses so far
  added,     \* history: per (store, product), the sum of the quantities upserted
  removed,   \* history: per (store, product), the sum of the quantities reduced
  call,      \* the arguments of the last direct call of reduce_inventory
  reordered, \* the totals of a reordering of the rows last reported
  cpc,       \* per concurrent instance: where its one script run is
  cform,     \* per concurrent instance: the widgets' values of its run
  cinv,      \* per concurrent instance: its local variable inventory
  csales,    \* per concurrent instance: its local variable sales
  stale,     \* history, per instance: the write that overtook its loaded copy
  lost       \* history: the last inventory save, when it overwrote such a write

concVars == <<cpc, cform, cinv, csales, stale, lost>>

vars == <<files, employee, pc, pending, msg, shown, ops, added, removed,
          call, reordered, concVars>>

Pairs == STORE_LOCATIONS \X Products

NoForm == [type |-> "none"]
NoShown == [report_type |-> "none"]
NoFiles == [f \in {SALES_FILE, INVENTORY_FILE} |-> <<>>]
NoCall == [store |-> "none"]
NoWrite == [kind |-> "none"]
Instances == {1, 2}

\* what the parts of the state outside the single shell instance start as
InitOthers ==
  /\ call = NoCall
  /\ reordered = NoShown
  /\ cpc = [i \in Instances |-> "idle"]
  /\ cform = [i \in Instances |-> NoForm]
  /\ cinv = [i \in Instances |-> DefaultInventory]
  /\ csales = [i \in Instances |-> <<>>]
  /\ stale = [i \in Instances |-> NoWrite]
  /\ lost = NoWrite

Init ==
  /\ files = NoFiles
  /\ employee = <<>>
  /\ pc = "idle"
  /\ pending = NoForm
  /\ msg = "none"
  /\ shown = NoShown
  /\ ops = 0
  /\ added = [pr \in Pairs |-> 0]
  /\ removed = [pr \in Pairs |-> 0]
  /\ InitOthers

(* ------------------------------ the shell ----------------------------- *)
\* lines 72-75: the sidebar's name box; nothing below runs without a name
Login(name) ==
  /\ pc = "idle"
  /\ employee' = strip(name)
  /\ msg' = "none"
  /\ shown' = NoShown
  /\ UNCHANGED <<files, pc, pending, ops, added, removed, call, reordered, concVars>>

\* line 103: reduce_inventory is called for a Phone Sale only
ChecksStockAlways(sale_type) == TRUE

ChecksStock(sale_type) == sale_type = "Phone Sale"

\* lines 103-104: st.stop() when reduce_inventory returned False
SaleStopsNever(result) == FALSE

SaleStops(result) == result # "ok"

\* lines 82-105: the Add Sale page up to and including reduce_inventory; the
\* product and quantity boxes are there for a Phone Sale only (lines 88-93)
SaveSale(store, sale_type, typed, typed_qty, cost, sold, payment_method) ==
  LET product == IF sale_type = "Phone Sale" THEN typed ELSE BillPaymentName
      qty == IF sale_type = "Phone Sale" THEN typed_qty ELSE 1
      result == IF ChecksStock(sale_type)
                THEN ReduceResult(load_inventory(files), store, strip(product), qty)
                ELSE "ok"
  IN /\ employee # <<>>
     /\ pc = "idle"
     /\ ops < MaxOps
     /\ IF strip(product) = <<>>
        THEN /\ msg' = "empty_product"
             /\ UNCHANGED <<files, pc, pending, removed>>
        ELSE IF SaleStops(result)
        THEN /\ msg' = result
             /\ UNCHANGED <<files, pc, pending, removed>>
        ELSE /\ files' = IF ChecksStock(sale_type)
                         THEN reduce_inventory(files, store, strip(product), qty)
                         ELSE files
             /\ removed' = IF ChecksStock(sale_type) /\ result = "ok"
                           THEN [removed EXCEPT ![<<store, strip(product)>>] = @ + qty]
                           ELSE removed
             /\ pc' = "append"
             /\ pending' = [employee |-> employee, store |-> store, type |-> sale_type,
                            product |-> strip(product), quantity |-> qty, cost |-> cost,
                            sold |-> sold, payment_method |-> payment_method]
             /\ msg' = IF result = "ok" THEN "none" ELSE result
     /\ ops' = ops + 1
     /\ shown' = NoShown
     /\ UNCHANGED <<employee, added, call, reordered, concVars>>

\* lines 108-119: the record of the form, dated by datetime.now()
SaleRecord(form, date) ==
  [employee |-> form.employee, store |-> form.store, date |-> date,
   type |-> form.type, product |-> form.product, quantity |-> form.quantity,
   cost |-> form.cost, sold |-> form.sold, acc |-> FSub(form.sold, form.cost),
   payment_method |-> form.payment_method]

\* line 108
AppendedFirst(sales, record) == <<record>> \o sales

Appended(sales, record) == Append(sales, record)

\* lines 106-121: the record is appended to the ledger and the ledger saved
AppendSale ==
  /\ pc = "append"
  /\ \E date \in Minutes :
       files' = save_sales(files, Appended(load_sales(files), SaleRecord(pending, date)))
  /\ pc' = "idle"
  /\ pending' = NoForm
  /\ msg' = "saved"
  /\ UNCHANGED <<employee, shown, ops, added, removed, call, reordered, concVars>>

\* lines 124-149: the Inventory page with "Update Inventory" pressed
UpdateInventory(store, typed, qty_add) ==
  /\ employee # <<>>
  /\ pc = "idle"
  /\ ops < MaxOps
  /\ IF strip(typed) # <<>>
     THEN /\ files' = save_inventory(files,
                        UpsertDoc(load_inventory(files), store, strip(typed), qty_add))
          /\ added' = [added EXCEPT ![<<store, strip(typed)>>] = @ + qty_add]
          /\ msg' = "updated"
     ELSE /\ msg' = "invalid_product"
          /\ UNCHANGED <<files, added>>
  /\ ops' = ops + 1
  /\ shown' = NoShown
  /\ UNCHANGED <<employee, pc, pending, removed, call, reordered, concVars>>

\* lines 169 and 177
FilterSales(sales, report_type, key) ==
  LET ByStore(s) == s.store = key
      ByEmployee(s) == s.employee = key
  IN IF report_type = "By Store" THEN SelectSeq(sales, ByStore)
     ELSE IF report_type = "By Employee" THEN SelectSeq(sales, ByEmployee)
     ELSE sales

ReportKeys(sales, report_type) ==
  IF report_type = "By Store" THEN STORE_LOCATIONS
  ELSE IF report_type = "By Employee" THEN {sales[i].employee : i \in 1..Len(sales)}
  ELSE {"ALL STORES"}

\* lines 152-180: the Reports page
Reports(report_type) ==
  LET sales == load_sales(files)
  IN /\ employee # <<>>
     /\ pc = "idle"
     /\ ops < MaxOps
     /\ ops' = ops + 1
     /\ IF sales = <<>>
        THEN /\ msg' = "no_sales"
             /\ shown' = NoShown
        ELSE /\ msg' = "report"
             /\ \E key \in ReportKeys(sales, report_type) :
                  LET filtered == FilterSales(sales, report_type, key)
                  IN shown' = [report_type |-> report_type,
                               totals |-> calculate_totals(filtered),
                               rows |-> filtered]
     /\ reordered' = NoShown
     /\ UNCHANGED <<files, employee, pc, pending, added, removed, call, concVars>>

Next ==
  \/ \E name \in EmployeeInputs : Login(name)
  \/ \E store \in STORE_LOCATIONS, typed \in ProductInputs, typed_qty \in 1..MaxQty,
        price \in PriceInputs, payment_method \in PaymentMethods :
       SaveSale(store, "Phone Sale", typed, typed_qty, price[1], price[2], payment_method)
  \/ \E store \in STORE_LOCATIONS, price \in PriceInputs,
        payment_method \in PaymentMethods :
       SaveSale(store, "Bill Payment", <<>>, 1, price[1], price[2], payment_method)
  \/ AppendSale
  \/ \E store \in STORE_LOCATIONS, typed \in ProductInputs, qty_add \in 1..MaxAdd :
       UpdateInventory(store, typed, qty_add)
  \/ \E report_type \in {"All Stores", "By Store", "By Employee"} : Reports(report_type)

Spec == Init /\ [][Next]_vars

(* ------------------ reduce_inventory on any document ------------------ *)
\* the product maps a store can hold, quantities up to MaxStock
DecMaps == UNION {[ps -> 0..MaxStock] : ps \in SUBSET Products}

\* inventory documents: a store of STORE_LOCATIONS may be missing, one store
\* holds any map and the others hold every product, sold out
DecDocs ==
  {[s \in ss |-> IF s = t THEN m ELSE [p \in Products |-> 0]] :
     ss \in SUBSET STORE_LOCATIONS, t \in STORE_LOCATIONS, m \in DecMaps}

InitDec ==
  /\ \E f \in {<<>>} \cup {<<d>> : d \in DecDocs} :
       files = [NoFiles EXCEPT ![INVENTORY_FILE] = f]
  /\ employee = <<>>
  /\ pc = "idle"
  /\ pending = NoForm
  /\ msg = "none"
  /\ shown = NoShown
  /\ ops = 0
  /\ added = [pr \in Pairs |-> 0]
  /\ removed = [pr \in Pairs |-> 0]
  /\ InitOthers

\* lines 39-49: reduce_inventory(store, product, qty); msg is what it returned
DecCall(store, product, qty) ==
  /\ call' = [store |-> store, product |-> product, qty |-> qty]
  /\ msg' = ReduceResult(load_inventory(files), store, product, qty)
  /\ files' = reduce_inventory(files, store, product, qty)
  /\ UNCHANGED <<employee, pc, pending, shown, ops, added, removed, reordered, concVars>>

NextDec ==
  \E store \in STORE_LOCATIONS, product \in Products, qty \in 1..MaxQty :
    DecCall(store, product, qty)

SpecDec == InitDec /\ [][NextDec]_vars

(* ------------------ calculate_totals on any ledger -------------------- *)
\* records as lines 108-119 write them: <<employee, store, cost, sold, method>>
TotalsInputs ==
  {<<"e", "1 E Penn Sq", 0, 1, "Cash">>,
   <<"e", "1 E Penn Sq", 1, 2 ^ MantBits, "Card">>,
   <<"f", "1 E Penn Sq", 0, 2 ^ MantBits, "Cash">>,
   <<"f", "5600 Germantion Ave", 1, 0, "Card">>}

TotalsRecords ==
  {SaleRecord([employee |-> <<t[1]>>, store |-> t[2], type |-> "Bill Payment",
               product |-> BillPaymentName, quantity |-> 1, cost |-> t[3],
               sold |-> t[4], payment_method |-> t[5]], 0) : t \in TotalsInputs}

TotalsLedgers == UNION {[1..n -> TotalsRecords] : n \in 0..MaxRecs}

InitTotals ==
  /\ \E ledger \in TotalsLedgers : files = [NoFiles EXCEPT ![SALES_FILE] = <<ledger>>]
  /\ employee = <<"e">>
  /\ pc = "idle"
  /\ pending = NoForm
  /\ msg = "none"
  /\ shown = NoShown
  /\ ops = 0
  /\ added = [pr \in Pairs |-> 0]
  /\ removed = [pr \in Pairs |-> 0]
  /\ InitOthers

Orderings(n) == {f \in [1..n -> 1..n] : \A i, j \in 1..n : f[i] = f[j] => i = j}

Reorder(rows, f) == [i \in 1..Len(rows) |-> rows[f[i]]]

\* lines 51-58: calculate_totals on the rows last reported, in another order
Reordered ==
  /\ msg = "report"
  /\ \E f \in Orderings(Len(shown.rows)) :
       reordered' = [report_type |-> shown.report_type,
                     totals |-> calculate_totals(Reorder(shown.rows, f)),
                     rows |-> Reorder(shown.rows, f)]
  /\ UNCHANGED <<files, employee, pc, pending, msg, shown, ops, added, removed,
                 call, concVars>>

NextTotals ==
  \/ \E report_type \in {"All Stores", "By Store", "By Employee"} : Reports(report_type)
  \/ Reordered

SpecTotals == InitTotals /\ [][NextTotals]_vars

(* --------------- two shell instances on the same files ---------------- *)
\* Each instance runs one operation, Save Sale or Update Inventory; a step is
\* one access to a file with the code up to the next one.
\* documents one Update Inventory leaves behind
ConcDocs ==
  {UpsertDoc(DefaultInventory, store, product, qty_add) :
     store \in STORE_LOCATIONS, product \in Products, qty_add \in 1..MaxAdd}

InitConc ==
  /\ \E f \in {<<>>} \cup {<<d>> : d \in ConcDocs} :
       files = [NoFiles EXCEPT ![INVENTORY_FILE] = f]
  /\ employee = <<>>
  /\ pc = "idle"
  /\ pending = NoForm
  /\ msg = "none"
  /\ shown = NoShown
  /\ ops = 0
  /\ added = [pr \in Pairs |-> 0]
  /\ removed = [pr \in Pairs |-> 0]
  /\ InitOthers

\* lines 40 and 128: the document a run works on is the one it loaded
LocalInventoryReloaded(i) == load_inventory(files)

LocalInventory(i) == cinv[i]

\* history: instance i saves the inventory; w describes the write
InventorySaved(i, w) ==
  /\ lost' = IF stale[i] # NoWrite
             THEN [kind |-> "lost", winner |-> w, loser |-> stale[i]]
             ELSE NoWrite
  /\ stale' = [j \in Instances |->
                IF j = i THEN NoWrite
                ELSE IF cpc[j] \in {"reduce", "update"} THEN w
                ELSE stale[j]]

\* lines 82-103 and line 40: Save Sale pressed; a Phone Sale loads the inventory
CSaveSale(i, name, store, sale_type, typed, typed_qty, cost, sold, payment_method) ==
  LET product == IF sale_type = "Phone Sale" THEN typed ELSE BillPaymentName
      qty == IF sale_type = "Phone Sale" THEN typed_qty ELSE 1
      form == [employee |-> name, store |-> store, type |-> sale_type,
               product |-> strip(product), quantity |-> qty, cost |-> cost,
               sold |-> sold, payment_method |-> payment_method]
  IN /\ cpc[i] = "idle"
     /\ IF strip(product) = <<>>
        THEN /\ cpc' = [cpc EXCEPT ![i] = "done"]
             /\ UNCHANGED <<cform, cinv>>
        ELSE IF ChecksStock(sale_type)
        THEN /\ cinv' = [cinv EXCEPT ![i] = load_inventory(files)]
             /\ cpc' = [cpc EXCEPT ![i] = "reduce"]
             /\ cform' = [cform EXCEPT ![i] = form]
        ELSE /\ cpc' = [cpc EXCEPT ![i] = "load_sales"]
             /\ cform' = [cform EXCEPT ![i] = form]
             /\ UNCHANGED cinv
     /\ stale' = [stale EXCEPT ![i] = NoWrite]
     /\ UNCHANGED <<files, employee, pc, pending, msg, shown, ops, added, removed,
                    call, reordered, csales, lost>>

\* lines 41-49: the rest of reduce_inventory, and st.stop() when it failed
CReduce(i) ==
  LET inventory == LocalInventory(i)
      f == cform[i]
      result == ReduceResult(inventory, f.store, f.product, f.quantity)
  IN /\ cpc[i] = "reduce"
     /\ IF SaleStops(result)
        THEN /\ cpc' = [cpc EXCEPT ![i] = "done"]
             /\ UNCHANGED <<files, cform, stale, lost>>
        ELSE /\ files' = save_inventory(files,
                           ReduceDoc(inventory, f.store, f.product, f.quantity))
             /\ cpc' = [cpc EXCEPT ![i] = "load_sales"]
             /\ InventorySaved(i, [kind |-> "reduce", store |-> f.store,
                                    product |-> f.product, delta |-> 0 - f.quantity,
                                    base |-> cinv[i]])
             /\ UNCHANGED cform
     /\ UNCHANGED <<employee, pc, pending, msg, shown, ops, added, removed,
                    call, reordered, cinv, csales>>

\* line 107
CLoadSales(i) ==
  /\ cpc[i] = "load_sales"
  /\ csales' = [csales EXCEPT ![i] = load_sales(files)]
  /\ cpc' = [cpc EXCEPT ![i] = "save_sales"]
  /\ UNCHANGED <<files, employee, pc, pending, msg, shown, ops, added, removed,
                 call, reordered, cform, cinv, stale, lost>>

\* lines 108-121
CSaveSales(i) ==
  /\ cpc[i] = "save_sales"
  /\ \E date \in Minutes :
       files' = save_sales(files, Appended(csales[i], SaleRecord(cform[i], date)))
  /\ cpc' = [cpc EXCEPT ![i] = "done"]
  /\ UNCHANGED <<employee, pc, pending, msg, shown, ops, added, removed,
                 call, reordered, cform, cinv, csales, stale, lost>>

\* lines 124-140: the Inventory page loads the inventory, the button is pressed
CInventoryPage(i, store, typed, qty_add) ==
  /\ cpc[i] = "idle"
  /\ cinv' = [cinv EXCEPT ![i] = load_inventory(files)]
  /\ cform' = [cform EXCEPT ![i] = [type |-> "upsert", store |-> store,
                                     product |-> strip(typed), quantity |-> qty_add]]
  /\ cpc' = [cpc EXCEPT ![i] = "update"]
  /\ stale' = [stale EXCEPT ![i] = NoWrite]
  /\ UNCHANGED <<files, employee, pc, pending, msg, shown, ops, added, removed,
                 call, reordered, csales, lost>>

\* lines 141-149
CUpdateInventory(i) ==
  LET inventory == LocalInventory(i)
      f == cform[i]
  IN /\ cpc[i] = "update"
     /\ IF f.product # <<>>
        THEN /\ files' = save_inventory(files,
                           UpsertDoc(inventory, f.store, f.product, f.quantity))
             /\ InventorySaved(i, [kind |-> "upsert", store |-> f.store,
                                    product |-> f.product, delta |-> f.quantity,
                                    base |-> cinv[i]])
        ELSE UNCHANGED <<files, stale, lost>>
     /\ cpc' = [cpc EXCEPT ![i] = "done"]
     /\ UNCHANGED <<employee, pc, pending, msg, shown, ops, added, removed,
                    call, reordered, cform, cinv, csales>>

NextConc ==
  \E i \in Instances :
    \/ \E name \in Employees, store \in STORE_LOCATIONS, typed \in ProductInputs,
          typed_qty \in 1..MaxQty :
         CSaveSale(i, name, store, "Phone Sale", typed, typed_qty, 0, 1, "Cash")
    \/ \E name \in Employees, store \in STORE_LOCATIONS :
         CSaveSale(i, name, store, "Bill Payment", <<>>, 1, 0, 1, "Cash")
    \/ CReduce(i)
    \/ CLoadSales(i)
    \/ CSaveSales(i)
    \/ \E store \in STORE_LOCATIONS, typed \in ProductInputs, qty_add \in 1..MaxAdd :
         CInventoryPage(i, store, typed, qty_add)
    \/ CUpdateInventory(i)

SpecConc == InitConc /\ [][NextConc]_vars

(* ------------------------------ the claims ---------------------------- *)
Inventory == load_inventory(files)
Ledger == load_sales(files)

IsPrefix(s, t) == Len(s) <= Len(t) /\ SubSeq(t, 1, Len(s)) = s

FailMsgs == {"empty_product", "not_found", "insufficient"}

\* the quantity fields of the Phone Sale records of (store, product), summed
RECURSIVE SoldQty(_, _, _)
SoldQty(sales, store, product) ==
  IF sales = <<>> THEN 0
  ELSE LET r == sales[Len(sales)]
       IN SoldQty(SubSeq(sales, 1, Len(sales) - 1), store, product)
          + (IF r.type = "Phone Sale" /\ r.store = store /\ r.product = product
             THEN r.quantity ELSE 0)

NonNegative ==
  \A store \in DOMAIN Inventory : \A p \in DOMAIN Inventory[store] :
    Inventory[store][p] >= 0

\* C1: from a fresh inventory, under upserts and sale submissions run one at a
\* time, every stored quantity is >= 0, and a submission rejected for
\* insufficient stock leaves the files as they were.
C1_QuantityNeverNegative ==
  [](NonNegative) /\ [][msg' = "insufficient" => files' = files]_vars

C1_Witness ==
  /\ msg = "insufficient"
  /\ \E pr \in Pairs : Stored(Inventory, pr[1], pr[2]) = 1 /\ added[pr] = 1

\* C2: a submission that fails (empty product name, NotFound, InsufficientStock)
\* changes neither file and leaves no append pending; a Phone Sale goes on to
\* the append only in a step that decrements its entry by its quantity; the
\* ledger changes only in the append of a submission that got that far.
C2_FailedSubmissionMutatesNothing ==
  [][/\ msg' \in FailMsgs => files' = files /\ pc' = "idle"
     /\ (pc = "idle" /\ pc' = "append" /\ pending'.type = "Phone Sale") =>
          LET s == pending'.store
              p == pending'.product
              q == pending'.quantity
          IN /\ Stored(Inventory, s, p) >= q
             /\ Stored(load_inventory(files'), s, p) = Stored(Inventory, s, p) - q
     /\ load_sales(files') # Ledger =>
          /\ pc = "append"
          /\ \E date \in Minutes :
               load_sales(files') = Append(Ledger, SaleRecord(pending, date))
    ]_vars

C2_Witness ==
  /\ msg = "not_found"
  /\ Len(Ledger) = 1
  /\ pc = "idle"

\* C4: as long as nothing was decremented, the stored quantity of every
\* (store, product) is the sum of the quantities upserted to it, and there is
\* an entry exactly for the pairs that were upserted.
C4_UpsertSums ==
  (\A pr \in Pairs : removed[pr] = 0) =>
    \A pr \in Pairs :
      Stored(Inventory, pr[1], pr[2]) = IF added[pr] = 0 THEN -1 ELSE added[pr]

C4_Witness ==
  /\ \A pr \in Pairs : removed[pr] = 0
  /\ \E pr \in Pairs : added[pr] > MaxAdd /\ Stored(Inventory, pr[1], pr[2]) = added[pr]

BillSubmission ==
  \E store \in STORE_LOCATIONS, price \in PriceInputs, payment_method \in PaymentMethods :
    SaveSale(store, "Bill Payment", <<>>, 1, price[1], price[2], payment_method)

\* C5: a Bill Payment submission always goes through, whatever the inventory:
\* it never stops before the append, it leaves the inventory file alone, and
\* its append adds exactly one record, whose product is "Bill Payment".
C5_BillPaymentNoStockCheck ==
  /\ []((employee # <<>> /\ pc = "idle" /\ ops < MaxOps) =>
          /\ ENABLED (BillSubmission /\ pc' = "append")
          /\ ~ ENABLED (BillSubmission /\ pc' # "append"))
  /\ [][/\ (pc = "idle" /\ pc' = "append" /\ pending'.type = "Bill Payment") =>
             files' = files
        /\ (pc = "append" /\ pc' = "idle" /\ pending.type = "Bill Payment") =>
             /\ Len(load_sales(files')) = Len(Ledger) + 1
             /\ load_sales(files')[Len(Ledger) + 1].product = BillPaymentName
             /\ files'[INVENTORY_FILE] = files[INVENTORY_FILE]
       ]_vars

C5_Witness ==
  /\ files[INVENTORY_FILE] = <<>>
  /\ Len(Ledger) = 1
  /\ Ledger[1].type = "Bill Payment"
  /\ Ledger[1].product = BillPaymentName
  /\ msg = "saved"

\* C6: the ledger before a step is a prefix of the ledger after it; the append
\* of a submission adds exactly one record, at the end; no other step changes
\* the ledger.
C6_LedgerAppendOnly ==
  [][/\ IsPrefix(Ledger, load_sales(files'))
     /\ (pc = "append" /\ pc' = "idle") =>
          /\ Len(load_sales(files')) = Len(Ledger) + 1
          /\ \E date \in Minutes :
               load_sales(files')[Len(Ledger) + 1] = SaleRecord(pending, date)
     /\ ~(pc = "append" /\ pc' = "idle") => load_sales(files') = Ledger
    ]_vars

C6_Witness ==
  /\ Len(Ledger) = 2
  /\ Ledger[1] # Ledger[2]

\* C10: after every completed operation the stored quantity of each pair is
\* what was upserted to it minus the quantities of its Phone Sale records;
\* between the decrement and the append of a submission, the recorded sales of
\* each pair are at most the stock removed from it.
C10_StockConservation ==
  \A pr \in Pairs :
    LET stored == IF Stored(Inventory, pr[1], pr[2]) = -1 THEN 0
                  ELSE Stored(Inventory, pr[1], pr[2])
        sold == SoldQty(Ledger, pr[1], pr[2])
    IN /\ pc = "idle" => stored = added[pr] - sold
       /\ pc = "append" => sold <= added[pr] - stored
       /\ added[pr] - stored = removed[pr]
       /\ Stored(Inventory, pr[1], pr[2]) = -1 => added[pr] = 0

C10_Witness ==
  /\ pc = "idle"
  /\ \E pr \in Pairs :
       /\ SoldQty(Ledger, pr[1], pr[2]) = MaxQty
       /\ Stored(Inventory, pr[1], pr[2]) = added[pr] - MaxQty

\* C3: reduce_inventory succeeds exactly when the store and the product are
\* there and the quantity is >= qty; it reports NotFound exactly when one of
\* them is missing and InsufficientStock exactly when the entry is < qty; on
\* success the entry drops by qty and nothing else changes; on failure the
\* files are as they were.
C3_DecrementContract ==
  [][LET inv == Inventory
         after == load_inventory(files')
         s == call'.store
         p == call'.product
         q == call'.qty
         there == s \in DOMAIN inv /\ p \in DOMAIN inv[s]
     IN /\ msg' = "ok" <=> (there /\ inv[s][p] >= q)
        /\ msg' = "not_found" <=> ~there
        /\ msg' = "insufficient" <=> (there /\ inv[s][p] < q)
        /\ msg' = "ok" =>
             /\ after[s][p] = inv[s][p] - q
             /\ DOMAIN after = DOMAIN inv
             /\ \A s2 \in DOMAIN inv :
                  /\ DOMAIN after[s2] = DOMAIN inv[s2]
                  /\ \A p2 \in DOMAIN inv[s2] :
                       <<s2, p2>> # <<s, p>> => after[s2][p2] = inv[s2][p2]
             /\ files'[SALES_FILE] = files[SALES_FILE]
        /\ msg' # "ok" => files' = files
    ]_vars

C3_Witness ==
  /\ msg = "ok"
  /\ Stored(Inventory, call.store, call.product) = 0
  /\ \E p2 \in Products : Stored(Inventory, call.store, p2) > 0

\* the first n amounts of xs added up in list order
RECURSIVE SumTo(_, _)
SumTo(xs, n) == IF n = 0 THEN 0 ELSE FAdd(SumTo(xs, n - 1), xs[n])

\* the sold fields of the first n rows paid by method, added up in list order
RECURSIVE SoldBy(_, _, _)
SoldBy(rows, n, method) ==
  IF n = 0 THEN 0
  ELSE IF rows[n].payment_method = method
       THEN FAdd(SoldBy(rows, n - 1, method), rows[n].sold)
       ELSE SoldBy(rows, n - 1, method)

TotalsAsClaimed(rows) ==
  [cost |-> SumTo([i \in 1..Len(rows) |-> rows[i].cost], Len(rows)),
   sold |-> SumTo([i \in 1..Len(rows) |-> rows[i].sold], Len(rows)),
   acc |-> SumTo([i \in 1..Len(rows) |-> rows[i].acc], Len(rows)),
   cash |-> SoldBy(rows, Len(rows), "Cash"),
   card |-> SoldBy(rows, Len(rows), "Card")]

\* C7: for the rows of a report (all sales, a store's, an employee's) and for
\* any reordering of them, totals has cost, sold and acc the sums of those
\* fields and cash and card the sums of sold over the rows paid that way, each
\* sum taken in list order in floating point; for no rows all five are 0.
C7_TotalsAreFieldSums ==
  /\ msg = "report" =>
       /\ shown.totals = TotalsAsClaimed(shown.rows)
       /\ shown.rows = <<>> =>
            shown.totals = [cost |-> 0, sold |-> 0, acc |-> 0, cash |-> 0, card |-> 0]
  /\ reordered # NoShown => reordered.totals = TotalsAsClaimed(reordered.rows)

C7_Witness ==
  /\ msg = "report"
  /\ shown.report_type = "By Store"
  /\ Len(shown.rows) = 2
  /\ Len(Ledger) = 3
  /\ shown.totals.cash > 0
  /\ shown.totals.card > 0
  /\ shown.totals.cost > 0

\* C8: the totals of any reordering of the rows equal the totals of the rows,
\* and computing them changes no file and not the rows.
C8_TotalsPermutationInvariant ==
  /\ [](reordered # NoShown => reordered.totals = shown.totals)
  /\ [][reordered' # reordered => files' = files /\ shown' = shown]_vars

\* C9: when an instance saves the inventory it loaded before another
\* instance's save, the file holds its own change on top of what it loaded:
\* the entry it wrote is the loaded quantity plus its own change, and the
\* other instance's entry is back at the loaded quantity, though both reported
\* success.
C9_LastWriterWins ==
  lost # NoWrite =>
    LET w == lost.winner
        l == lost.loser
        Qty(doc, s, p) == IF Stored(doc, s, p) = -1 THEN 0 ELSE Stored(doc, s, p)
    IN /\ Stored(Inventory, w.store, w.product)
            = Qty(w.base, w.store, w.product) + w.delta
       /\ <<l.store, l.product>> # <<w.store, w.product>> =>
            Stored(Inventory, l.store, l.product) = Stored(w.base, l.store, l.product)
       /\ Qty(Inventory, l.store, l.product)
            # Qty(w.base, l.store, l.product) + l.delta
              + (IF <<l.store, l.product>> = <<w.store, w.product>> THEN w.delta ELSE 0)

C9_Witness ==
  /\ lost # NoWrite
  /\ \A i \in Instances : cpc[i] = "done"
  /\ lost.loser.kind = "reduce"
  /\ lost.winner.kind = "upsert"
  /\ <<lost.loser.store, lost.loser.product>> = <<lost.winner.store, lost.winner.product>>
  /\ Len(Ledger) = 1
  /\ Ledger[1].type = "Phone Sale"

====
